---- MODULE Spec2Model ----
(***************************************************************************)
(* Model of the function-call approval loop of                             *)
(* src/tutorial_function_tools_approvals.py (handle_approvals).            *)
(*                                                                         *)
(* One step of the model is the code that runs between two blocking        *)
(* points of the coroutine: the suspension in `await agent.run(...)`       *)
(* (line 120) and the blocking console read `input(...)` (line 138).       *)
(***************************************************************************)
EXTENDS Integers, Sequences, FiniteSets, TLC

\* ------------------------------------------------------------------ bounds
\* largest number of agent.run calls one invocation makes when it runs alone
MaxRounds == 4
\* the same, when two invocations run on one event loop
MaxRoundsConc == 2
\* largest number of approval requests in one response
MaxPending == 2
\* the same, when two invocations run on one event loop
MaxPendingConc == 1
\* largest number of get_weather calls on one WeatherTools instance
MaxCalls == 4
\* longest console answer
MaxAnswerLen == 4

\* ------------------------------------------------------------- value sets
Inv == {1, 2}
Queries == {"Get detailed weather for Seattle and Portland",
            "What is the detailed weather like in Amsterdam?"}
Requests == {"get_weather_detail:Seattle", "get_weather_detail:Portland"}
Texts == {"cloudy", "sunny"}
NoReq == "-"
NoResult == "None"

\* console answers, as sequences of characters
Answers == { <<"y","e","s">>, <<"Y","E","S">>, <<"Y","e","s">>, <<"n","o">>,
             <<"y">>, <<>>, <<" ","y","e","s">> }

\* ------------------------------------------------------------------ turns
\* the plain query string that opens every submitted conversation; the first
\* submission, `current_input = query`, is the conversation of this one turn
TextTurn(q) ==
  [role |-> "user", kind |-> "text", text |-> q, req |-> NoReq, approved |-> FALSE]

AssistantTurnAsUser(r) ==
  [role |-> "user", kind |-> "approval_request", text |-> "", req |-> r,
   approved |-> FALSE]

\* ChatMessage(role=Role.ASSISTANT, contents=[user_input_needed])
AssistantTurn(r) ==
  [role |-> "assistant", kind |-> "approval_request", text |-> "", req |-> r,
   approved |-> FALSE]

ApprovalTurnApproveAll(r, b) ==
  [role |-> "user", kind |-> "approval_response", text |-> "", req |-> r,
   approved |-> TRUE]

\* ChatMessage(role=Role.USER, contents=[user_input_needed.create_response(b)])
ApprovalTurn(r, b) ==
  [role |-> "user", kind |-> "approval_response", text |-> "", req |-> r,
   approved |-> b]

\* ---------------------------------------------------------- pure functions
LowerChar(c) ==
  CASE c = "Y" -> "y"
    [] c = "E" -> "e"
    [] c = "S" -> "s"
    [] c = "N" -> "n"
    [] c = "O" -> "o"
    [] OTHER -> c

\* str.lower()
Lower(s) == [j \in DOMAIN s |-> LowerChar(s[j])]

UserApprovalLoose(ans) == Lower(ans) \in {<<"y","e","s">>, <<"y">>}

\* input(...).lower() == "yes"
UserApproval(ans) == Lower(ans) = <<"y","e","s">>

\* the responses the remote service can give
Responses ==
  [requests : UNION {[1..n -> Requests] : n \in 0..MaxPending}, text : Texts]

NoResponse == [requests |-> <<>>, text |-> ""]

ReturnsNowAlways(res) == TRUE

\* `if not result.user_input_requests:`
ReturnsNow(res) == res.requests = <<>>

ReturnValueNone(res) == NoResult

\* `return result.text`
ReturnValue(res) == res.text

MoreRequestsUnlessDenied(res, k, approved) == approved /\ k < Len(res.requests)

\* the for loop over result.user_input_requests has another element after
\* the k-th; the decision just taken plays no part
MoreRequests(res, k, approved) == k < Len(res.requests)

IsPrefix(s, t) == Len(s) <= Len(t) /\ \A j \in 1..Len(s) : s[j] = t[j]

\* ------------------------------------------------------------------ state
VARIABLES
  pc,            \* per invocation: unused, idle, awaiting, prompting, done, failed
  query,         \* parameter `query`
  current_input, \* local `current_input`
  result,        \* local `result`; after a return, the response returned from
  new_inputs,    \* local `new_inputs`
  idx,           \* position of the for loop in result.user_input_requests
  ret,           \* value returned to the caller
  err,           \* exception that left the coroutine
  must_cancel,   \* a cancellation was requested while the task was running
  nsub,          \* observer: number of agent.run calls
  nresp,         \* observer: number of agent.run calls that returned
  npend,         \* observer: number of responses that listed requests
  nprompts,      \* observer: number of input() calls
  any_approved,  \* observer: some answer so far was an approval
  prompted,      \* observer: requests prompted for since the last response
  all_one,       \* observer: every response so far listed exactly one request
  \* one run of a tutorial example
  example,         \* the example function that is run
  endpoint,        \* os.getenv("AZURE_OPENAI_ENDPOINT")
  deployment_name, \* os.getenv("AZURE_OPENAI_CHAT_DEPLOYMENT_NAME")
  ex_pc,           \* entry, error, awaiting, prompting, awaiting_final, serving, done
  agent_created,   \* observer: create_agent was called
  requests_sent,   \* observer: number of agent.run / run_stream calls
  prompts_made,    \* observer: number of input() calls
  server_started,  \* observer: server.run / uvicorn.run was called
  raised,          \* exception that left the example
  error_printed,   \* observer: the "Error: Please set ..." line was printed
  mcp_server,      \* module global of tutorial_mcp_server_http
  sse_transport,   \* module global of tutorial_mcp_server_http
  s_result,        \* simple_approval_example: local `result`
  s_idx,           \* simple_approval_example: position of its for loop
  s_input,         \* simple_approval_example: the list given to the last agent.run
  s_decided,       \* observer: number of decisions taken
  s_shown,         \* observer: what was last printed after "Agent:"
  \* one WeatherTools instance
  last_location,   \* self.last_location
  w_args,          \* observer: the locations passed to get_weather, in order
  w_returned,      \* observer: the value the last call returned
  \* one console answer turned into a decision
  a_answer,        \* the string input() returned
  a_path,          \* the function that reads it
  a_turn           \* the decision turn made from it

loopvars == <<pc, query, current_input, result, new_inputs, idx, ret, err,
              must_cancel, nsub, nresp, npend, nprompts, any_approved,
              prompted, all_one>>

exvars == <<example, endpoint, deployment_name, ex_pc, agent_created,
            requests_sent, prompts_made, server_started, raised,
            error_printed, mcp_server, sse_transport, s_result, s_idx,
            s_input, s_decided, s_shown>>

toolvars == <<last_location, w_args, w_returned>>

ansvars == <<a_answer, a_path, a_turn>>

vars == <<loopvars, exvars, toolvars, ansvars>>

Active == {i \in Inv : pc[i] # "unused"}

\* the number of agent.run calls the model follows an invocation for
RoundCap == IF Cardinality(Active) = 1 THEN MaxRounds ELSE MaxRoundsConc

\* the number of requests per response the model follows an invocation for
PendingCap == IF Cardinality(Active) = 1 THEN MaxPending ELSE MaxPendingConc

\* no coroutine sits in the blocking input() call, so the event loop runs
LoopRunning == \A j \in Inv : pc[j] # "prompting"

InitWith(A, Q) ==
  /\ pc = [i \in Inv |-> IF i \in A THEN "idle" ELSE "unused"]
  /\ query \in Q
  /\ current_input = [i \in Inv |-> <<>>]
  /\ result = [i \in Inv |-> NoResponse]
  /\ new_inputs = [i \in Inv |-> <<>>]
  /\ idx = [i \in Inv |-> 0]
  /\ ret = [i \in Inv |-> NoResult]
  /\ err = [i \in Inv |-> "none"]
  /\ must_cancel = [i \in Inv |-> FALSE]
  /\ nsub = [i \in Inv |-> 0]
  /\ nresp = [i \in Inv |-> 0]
  /\ npend = [i \in Inv |-> 0]
  /\ nprompts = [i \in Inv |-> 0]
  /\ any_approved = [i \in Inv |-> FALSE]
  /\ prompted = [i \in Inv |-> <<>>]
  /\ all_one = [i \in Inv |-> TRUE]

NoExample == "-"
NoLocation == "None"
NoTurn == [role |-> "-", kind |-> "-", text |-> "", req |-> NoReq, approved |-> FALSE]
NoReturn == [msg |-> "-", location |-> NoLocation]
NothingShown == [text |-> "", pending |-> FALSE]

\* no tutorial example is run
ExamplesIdle ==
  /\ example = NoExample
  /\ endpoint = "https://your-resource.openai.azure.com"
  /\ deployment_name = "gpt-4o-mini"
  /\ ex_pc = "entry"
  /\ agent_created = FALSE
  /\ requests_sent = 0
  /\ prompts_made = 0
  /\ server_started = FALSE
  /\ raised = "none"
  /\ error_printed = FALSE
  /\ mcp_server = "None"
  /\ sse_transport = "None"
  /\ s_result = NoResponse
  /\ s_idx = 0
  /\ s_input = <<>>
  /\ s_decided = 0
  /\ s_shown = NothingShown

\* WeatherTools(): `self.last_location = None`
ToolsInit ==
  /\ last_location = NoLocation
  /\ w_args = <<>>
  /\ w_returned = NoReturn

\* no console answer is read
AnswersIdle ==
  /\ a_answer = <<>>
  /\ a_path = "-"
  /\ a_turn = NoTurn

\* no call of handle_approvals
LoopIdle ==
  InitWith({}, {[i \in Inv |-> "Get detailed weather for Seattle and Portland"]})

\* one call of handle_approvals, for any query (the second slot is not used)
Init ==
  /\ InitWith({1}, {q \in [Inv -> Queries] :
                      q[2] = "Get detailed weather for Seattle and Portland"})
  /\ ExamplesIdle
  /\ ToolsInit
  /\ AnswersIdle

\* two calls of handle_approvals scheduled on the same event loop, for two
\* different queries (the other assignment of the queries is its mirror image)
InitConc ==
  /\ InitWith({1, 2}, {q \in [Inv -> Queries] :
                         q[1] = "Get detailed weather for Seattle and Portland"
                         /\ q[2] # q[1]})
  /\ ExamplesIdle
  /\ ToolsInit
  /\ AnswersIdle

\* ---------------------------------------------------------------- actions
\* the coroutine of invocation i ends: its frame and locals are released
FrameGone(i) ==
  /\ current_input' = [current_input EXCEPT ![i] = <<>>]
  /\ new_inputs' = [new_inputs EXCEPT ![i] = <<>>]
  /\ idx' = [idx EXCEPT ![i] = 0]
  /\ prompted' = [prompted EXCEPT ![i] = <<>>]

\* exception e leaves handle_approvals, which has no try statement
Raise(i, e) ==
  /\ err' = [err EXCEPT ![i] = e]
  /\ pc' = [pc EXCEPT ![i] = "failed"]
  /\ FrameGone(i)
  /\ result' = [result EXCEPT ![i] = NoResponse]
  /\ must_cancel' = [must_cancel EXCEPT ![i] = FALSE]
  /\ UNCHANGED <<query, ret, nsub, nresp, npend, nprompts, any_approved,
                 all_one>>
  /\ UNCHANGED <<exvars, toolvars, ansvars>>

\* handle_approvals is entered: current_input = query, first agent.run call
Start(i) ==
  /\ pc[i] = "idle"
  /\ LoopRunning
  /\ current_input' = [current_input EXCEPT ![i] = <<TextTurn(query[i])>>]
  /\ nsub' = [nsub EXCEPT ![i] = 1]
  /\ pc' = [pc EXCEPT ![i] = "awaiting"]
  /\ UNCHANGED <<query, result, new_inputs, idx, ret, err, must_cancel, nresp,
                 npend, nprompts, any_approved, prompted, all_one>>
  /\ UNCHANGED <<exvars, toolvars, ansvars>>

StartNewInputsEmpty(i) == <<>>

StartNewInputsHardCoded(i) ==
  <<TextTurn("What is the detailed weather like in Amsterdam?")>>

\* `new_inputs = [query]`
StartNewInputs(i) == <<TextTurn(query[i])>>

\* agent.run returns `resp`: either return its text, or open the round and
\* block in the first input() call
Respond(i, resp) ==
  /\ pc[i] = "awaiting"
  /\ LoopRunning
  /\ ~must_cancel[i]
  /\ Len(resp.requests) <= PendingCap
  /\ nsub[i] = RoundCap => resp.requests = <<>>
  /\ result' = [result EXCEPT ![i] = resp]
  /\ nresp' = [nresp EXCEPT ![i] = @ + 1]
  /\ all_one' = [all_one EXCEPT ![i] = @ /\ Len(resp.requests) = 1]
  /\ IF ReturnsNow(resp)
       THEN /\ ret' = [ret EXCEPT ![i] = ReturnValue(resp)]
            /\ pc' = [pc EXCEPT ![i] = "done"]
            /\ FrameGone(i)
            /\ UNCHANGED <<nprompts, npend>>
       ELSE /\ new_inputs' = [new_inputs EXCEPT ![i] =
                   Append(StartNewInputs(i), AssistantTurn(resp.requests[1]))]
            /\ idx' = [idx EXCEPT ![i] = 1]
            /\ prompted' = [prompted EXCEPT ![i] = <<resp.requests[1]>>]
            /\ nprompts' = [nprompts EXCEPT ![i] = @ + 1]
            /\ npend' = [npend EXCEPT ![i] = @ + 1]
            /\ pc' = [pc EXCEPT ![i] = "prompting"]
            /\ UNCHANGED <<ret, current_input>>
  /\ UNCHANGED <<query, err, must_cancel, nsub, any_approved>>
  /\ UNCHANGED <<exvars, toolvars, ansvars>>

DecideSubmitsEach(i, ans) ==
  LET r  == result[i].requests[idx[i]]
      b  == UserApproval(ans)
      ni == Append(new_inputs[i], ApprovalTurn(r, b))
  IN
  /\ pc[i] = "prompting"
  /\ any_approved' = [any_approved EXCEPT ![i] = @ \/ b]
  /\ new_inputs' = [new_inputs EXCEPT ![i] = ni]
  /\ current_input' = [current_input EXCEPT ![i] = ni]
  /\ nsub' = [nsub EXCEPT ![i] = @ + 1]
  /\ pc' = [pc EXCEPT ![i] = "awaiting"]
  /\ UNCHANGED <<idx, prompted, nprompts>>
  /\ UNCHANGED <<query, result, ret, err, must_cancel, nresp, npend, all_one>>
  /\ UNCHANGED <<exvars, toolvars, ansvars>>

\* input() returns `ans`: append the decision; then either the next request's
\* assistant turn and input() call, or `current_input = new_inputs` and the
\* next agent.run call
Decide(i, ans) ==
  LET r  == result[i].requests[idx[i]]
      b  == UserApproval(ans)
      ni == Append(new_inputs[i], ApprovalTurn(r, b))
  IN
  /\ pc[i] = "prompting"
  /\ any_approved' = [any_approved EXCEPT ![i] = @ \/ b]
  /\ IF MoreRequests(result[i], idx[i], b)
       THEN /\ new_inputs' = [new_inputs EXCEPT ![i] =
                   Append(ni, AssistantTurn(result[i].requests[idx[i] + 1]))]
            /\ idx' = [idx EXCEPT ![i] = @ + 1]
            /\ prompted' = [prompted EXCEPT ![i] =
                   Append(@, result[i].requests[idx[i] + 1])]
            /\ nprompts' = [nprompts EXCEPT ![i] = @ + 1]
            /\ UNCHANGED <<current_input, nsub, pc>>
       ELSE /\ new_inputs' = [new_inputs EXCEPT ![i] = ni]
            /\ current_input' = [current_input EXCEPT ![i] = ni]
            /\ nsub' = [nsub EXCEPT ![i] = @ + 1]
            /\ pc' = [pc EXCEPT ![i] = "awaiting"]
            /\ UNCHANGED <<idx, prompted, nprompts>>
  /\ UNCHANGED <<query, result, ret, err, must_cancel, nresp, npend, all_one>>
  /\ UNCHANGED <<exvars, toolvars, ansvars>>

RunFailsRetry(i) ==
  /\ pc[i] = "awaiting"
  /\ LoopRunning
  /\ nsub[i] < RoundCap
  /\ err' = [err EXCEPT ![i] = "RemoteServiceError"]
  /\ nsub' = [nsub EXCEPT ![i] = @ + 1]
  /\ UNCHANGED <<pc, query, current_input, result, new_inputs, idx, ret,
                 must_cancel, nresp, npend, nprompts, any_approved, prompted,
                 all_one>>
  /\ UNCHANGED <<exvars, toolvars, ansvars>>

\* agent.run raises
RunFails(i) ==
  /\ pc[i] = "awaiting"
  /\ LoopRunning
  /\ Raise(i, "RemoteServiceError")

\* input() raises (EOFError on a closed stdin)
InputFails(i) ==
  /\ pc[i] = "prompting"
  /\ Raise(i, "EOFError")

\* the task is cancelled while suspended in `await agent.run(...)`, or a
\* cancellation requested earlier is delivered at that suspension
Cancel(i) ==
  /\ pc[i] = "awaiting"
  /\ LoopRunning
  /\ Raise(i, "CancelledError")

\* an interrupt during input() that surfaces as KeyboardInterrupt there
InterruptRaises(i) ==
  /\ pc[i] = "prompting"
  /\ Raise(i, "KeyboardInterrupt")

\* an interrupt during input() that asyncio.run turns into a cancellation
\* request: input() is not a suspension point, so the request waits for the
\* next `await agent.run(...)` and the read goes on
InterruptDeferred(i) ==
  /\ pc[i] = "prompting"
  /\ ~must_cancel[i]
  /\ must_cancel' = [must_cancel EXCEPT ![i] = TRUE]
  /\ UNCHANGED <<pc, query, current_input, result, new_inputs, idx, ret, err,
                 nsub, nresp, npend, nprompts, any_approved, prompted, all_one>>
  /\ UNCHANGED <<exvars, toolvars, ansvars>>

Next ==
  \/ \E i \in Inv : Start(i)
  \/ \E i \in Inv, resp \in Responses : Respond(i, resp)
  \/ \E i \in Inv, ans \in Answers : Decide(i, ans)
  \/ \E i \in Inv : RunFails(i)
  \/ \E i \in Inv : InputFails(i)
  \/ \E i \in Inv : Cancel(i)
  \/ \E i \in Inv : InterruptRaises(i)
  \/ \E i \in Inv : InterruptDeferred(i)

Spec == Init /\ [][Next]_vars

SpecConc == InitConc /\ [][Next]_vars

\* ------------------------------------------------------------- properties
\* invocation i has just resubmitted: an agent.run call after the first is
\* outstanding
Resubmitted(i) == pc[i] = "awaiting" /\ nsub[i] > 1

\* invocation i takes the step that makes a resubmission
Resubmits(i) == nsub[i] >= 1 /\ nsub'[i] > nsub[i]

\* C1: in every round whose response lists k >= 1 requests the console prompt
\* is invoked once per request, in the listed order, whatever the earlier
\* answers were, and the next agent.run call is made only after all k.
PromptsOncePerRequestInOrder ==
  \A i \in Active :
    /\ IsPrefix(prompted[i], result[i].requests)
    /\ pc[i] = "prompting" =>
         /\ Len(prompted[i]) = idx[i]
         /\ idx[i] >= 1
         /\ nsub[i] = nresp[i]
    /\ Resubmitted(i) =>
         /\ prompted[i] = result[i].requests
         /\ Len(prompted[i]) >= 1
         /\ nsub[i] = nresp[i] + 1

\* a round of two requests was resubmitted although the first was denied
PromptsAfterDenialWitness ==
  /\ Resubmitted(1)
  /\ Len(result[1].requests) = 2
  /\ Len(current_input[1]) = 5
  /\ ~current_input[1][3].approved
  /\ prompted[1] = result[1].requests

\* C2: within one invocation the submitted conversation is append-only: the
\* conversation of each submission is a prefix of the next one.
SubmissionsAppendOnly ==
  [][\A i \in Inv :
       Resubmits(i) => IsPrefix(current_input[i], current_input'[i])]_vars

\* C3: the number of turns of the submitted conversation is strictly
\* increasing from each submission to the next.
SubmissionLengthIncreases ==
  [][\A i \in Inv :
       Resubmits(i) => Len(current_input[i]) < Len(current_input'[i])]_vars

\* C4: against a service that lists one request in every response, the loop
\* fails with ApprovalLoopExceeded after its third submission and makes no
\* fourth.
ApprovalLoopBounded ==
  \A i \in Active :
    all_one[i] =>
      /\ nsub[i] <= 3
      /\ nresp[i] = 3 => pc[i] = "failed" /\ err[i] = "ApprovalLoopExceeded"

\* C5: when the first response lists no request there is exactly one
\* submission, no prompt, and the returned value is that response's text.
FirstResponseWithoutRequests ==
  \A i \in Active :
    (nresp[i] = 1 /\ npend[i] = 0) =>
      /\ nsub[i] = 1
      /\ nprompts[i] = 0
      /\ pc[i] = "done"
      /\ ret[i] = result[i].text

FirstResponseWithoutRequestsWitness ==
  /\ pc[1] = "done"
  /\ nresp[1] = 1
  /\ ret[1] = "sunny"

\* C6: while every answer is a denial, each request still gets its decision
\* turn with approved = false, every round is still resubmitted, nothing but
\* an exception ends the loop early, and the first response without requests
\* is returned.
DenialsAreResubmitted ==
  \A i \in Active :
    ~any_approved[i] =>
      /\ \A j \in 1..Len(new_inputs[i]) :
           new_inputs[i][j].kind = "approval_response" =>
             ~new_inputs[i][j].approved
      /\ Resubmitted(i) =>
           /\ Len(current_input[i]) = 1 + 2 * Len(result[i].requests)
           /\ \A j \in 1..Len(result[i].requests) :
                /\ current_input[i][2 * j + 1].kind = "approval_response"
                /\ current_input[i][2 * j + 1].req = result[i].requests[j]
                /\ ~current_input[i][2 * j + 1].approved
           /\ nsub[i] = npend[i] + 1
      /\ pc[i] = "failed" => err[i] # "none"
      /\ nresp[i] > npend[i] => pc[i] = "done" /\ ret[i] = result[i].text

\* two rounds of denials, then the answer
DenialsAreResubmittedWitness ==
  /\ pc[1] = "done"
  /\ ~any_approved[1]
  /\ nprompts[1] >= 3
  /\ nsub[1] = 3

\* C7: the loop returns exactly when a response lists no request, and what
\* it returns is that response's text: after r responses with requests and
\* one without, there were r + 1 submissions.
ReturnsFirstResponseWithoutRequests ==
  \A i \in Active :
    /\ pc[i] = "done" =>
         /\ result[i].requests = <<>>
         /\ ret[i] = result[i].text
         /\ nresp[i] = npend[i] + 1
         /\ nsub[i] = nresp[i]
    /\ nresp[i] > npend[i] => pc[i] = "done"
    /\ pc[i] # "done" => ret[i] = NoResult

ReturnsAfterTwoRoundsWitness ==
  /\ pc[1] = "done"
  /\ npend[1] = 2
  /\ nsub[1] = 3
  /\ ret[1] = "cloudy"

Failures == {"RemoteServiceError", "EOFError"}

\* C8: an exception of agent.run or of input() leaves handle_approvals: the
\* invocation is failed with no returned text, and it makes no further
\* agent.run call and no further input() call.
FailuresReachTheCaller ==
  [][\A i \in Inv :
       /\ err'[i] \in Failures => pc'[i] = "failed" /\ ret'[i] = NoResult
       /\ err[i] \in Failures =>
            nsub'[i] = nsub[i] /\ nprompts'[i] = nprompts[i]]_vars

\* the resubmission of a round failed
FailedResubmissionWitness ==
  /\ pc[1] = "failed"
  /\ err[1] = "RemoteServiceError"
  /\ nsub[1] = 2
  /\ nprompts[1] >= 1

Interrupted(i) ==
  must_cancel[i] \/ err[i] \in {"CancelledError", "KeyboardInterrupt"}

\* C9: once an invocation is cancelled or interrupted, at the await of
\* agent.run or at a prompt, it makes no further submission; and no
\* submission ever carries the decisions of only part of a round.
NoSubmissionAfterInterruption ==
  [][\A i \in Inv :
       /\ Interrupted(i) => nsub'[i] = nsub[i]
       /\ Resubmits(i) =>
            Len(current_input'[i]) = 1 + 2 * Len(result[i].requests)]_vars

\* C10: two invocations interleaved on one event loop keep to their own
\* conversation: each submits its own query followed by the request and
\* decision turns of its own latest round, and returns the text of its own
\* first response without requests.
InvocationsAreIsolated ==
  \A i \in Inv :
    /\ pc[i] \in {"awaiting", "prompting"} =>
         current_input[i][1] = TextTurn(query[i])
    /\ pc[i] = "prompting" =>
         /\ new_inputs[i][1] = TextTurn(query[i])
         /\ Len(new_inputs[i]) = 2 * idx[i]
         /\ \A j \in 1..idx[i] :
              new_inputs[i][2 * j] = AssistantTurn(result[i].requests[j])
    /\ Resubmitted(i) =>
         /\ Len(current_input[i]) = 1 + 2 * Len(result[i].requests)
         /\ \A j \in 1..Len(result[i].requests) :
              /\ current_input[i][2 * j] = AssistantTurn(result[i].requests[j])
              /\ current_input[i][2 * j + 1].kind = "approval_response"
              /\ current_input[i][2 * j + 1].req = result[i].requests[j]
    /\ pc[i] = "done" =>
         /\ ret[i] = result[i].text
         /\ nsub[i] = npend[i] + 1

\* invocation 2 has resubmitted its round while invocation 1, started with a
\* different query, is collecting the decisions of its own
InterleavedInvocationsWitness ==
  /\ pc[1] = "prompting"
  /\ Resubmitted(2)
  /\ query[1] # query[2]
  /\ result[1].requests # result[2].requests

\* the states an invocation can move to from each state of the loop
Successors(st) ==
  CASE st = "idle" -> {"idle", "awaiting"}
    [] st = "awaiting" -> {"awaiting", "prompting", "done", "failed"}
    [] st = "prompting" -> {"prompting", "awaiting", "failed"}
    [] OTHER -> {st}

\* C11: the loop moves awaiting -> (prompting -> awaiting | done), with done
\* and failed terminal: at most one agent.run call is outstanding, a call is
\* made only when every decision of the round is in, a prompt is made only
\* when no call is outstanding, and a finished loop does neither.
LoopStateMachine ==
  [][\A i \in Inv :
       /\ pc'[i] \in Successors(pc[i])
       /\ pc'[i] = "awaiting" => nsub'[i] = nresp'[i] + 1
       /\ pc'[i] \in {"prompting", "done"} => nsub'[i] = nresp'[i]
       /\ nsub'[i] # nsub[i] =>
            /\ nsub'[i] = nsub[i] + 1
            /\ pc'[i] = "awaiting"
            /\ pc[i] \in {"idle", "prompting"}
            /\ pc[i] = "prompting" => idx[i] = Len(result[i].requests)
       /\ nprompts'[i] # nprompts[i] =>
            /\ nprompts'[i] = nprompts[i] + 1
            /\ pc'[i] = "prompting"
            /\ nsub'[i] = nsub[i]
       /\ pc[i] \in {"done", "failed"} =>
            nsub'[i] = nsub[i] /\ nprompts'[i] = nprompts[i]]_vars

\* the loop is collecting the second decision of its second round
SecondRoundCollectingWitness ==
  /\ pc[1] = "prompting"
  /\ nsub[1] = 2
  /\ nresp[1] = 2
  /\ idx[1] = 2

\* C12: when round 1 lists exactly one request and round 2 none, the
\* conversation submitted in round 2 is the three turns (user query,
\* assistant turn with the request, user turn with the decision) and the
\* result is the text of round 2.
SingleApprovalScenario ==
  \A i \in Active :
    (nsub[i] = 2 /\ nprompts[i] = 1) =>
      /\ pc[i] = "awaiting" =>
           /\ Len(current_input[i]) = 3
           /\ current_input[i][1].role = "user"
           /\ current_input[i][1].kind = "text"
           /\ current_input[i][1].text = query[i]
           /\ current_input[i][2].role = "assistant"
           /\ current_input[i][2].kind = "approval_request"
           /\ current_input[i][2].req = result[i].requests[1]
           /\ current_input[i][3].role = "user"
           /\ current_input[i][3].kind = "approval_response"
           /\ current_input[i][3].req = result[i].requests[1]
      /\ pc[i] = "done" =>
           /\ nresp[i] = 2
           /\ result[i].requests = <<>>
           /\ ret[i] = result[i].text

\* one request, approved, then the answer
SingleApprovalWitness ==
  /\ pc[1] = "done"
  /\ nsub[1] = 2
  /\ nprompts[1] = 1
  /\ any_approved[1]
  /\ ret[1] = "cloudy"

\* C15: every resubmitted conversation is the query followed, for each
\* request of the round in order, by the assistant turn recording it and
\* then the user turn deciding that same request, and by nothing else.
ResubmissionShape ==
  \A i \in Active :
    Resubmitted(i) =>
      /\ Len(current_input[i]) = 1 + 2 * Len(result[i].requests)
      /\ current_input[i][1].kind = "text"
      /\ current_input[i][1].text = query[i]
      /\ \A j \in 1..Len(result[i].requests) :
           /\ current_input[i][2 * j].role = "assistant"
           /\ current_input[i][2 * j].kind = "approval_request"
           /\ current_input[i][2 * j].req = result[i].requests[j]
           /\ current_input[i][2 * j + 1].role = "user"
           /\ current_input[i][2 * j + 1].kind = "approval_response"
           /\ current_input[i][2 * j + 1].req = result[i].requests[j]

\* a round of two different requests was resubmitted
TwoRequestResubmissionWitness ==
  /\ Resubmitted(1)
  /\ Len(result[1].requests) = 2
  /\ result[1].requests[1] # result[1].requests[2]
  /\ current_input[1][3].approved
  /\ ~current_input[1][5].approved

\* ------------------------------------------------------------ WeatherTools
\* (src/tutorial_function_tools.py)
Locations == {"Tokyo", "Paris", ""}

InitTools == LoopIdle /\ ExamplesIdle /\ ToolsInit /\ AnswersIdle

\* get_weather(location)
GetWeather(loc) ==
  /\ Len(w_args) < MaxCalls
  /\ last_location' = loc
  /\ w_args' = Append(w_args, loc)
  /\ w_returned' = [msg |-> "The weather in", location |-> loc]
  /\ UNCHANGED <<loopvars, exvars, ansvars>>

DetailsReturnFalsy(l) ==
  IF l = NoLocation \/ l = ""
    THEN [msg |-> "No location specified yet.", location |-> NoLocation]
    ELSE [msg |-> "The detailed weather in", location |-> l]

\* the value get_weather_details returns when self.last_location is l
DetailsReturn(l) ==
  IF l = NoLocation
    THEN [msg |-> "No location specified yet.", location |-> NoLocation]
    ELSE [msg |-> "The detailed weather in", location |-> l]

\* get_weather_details()
GetWeatherDetails ==
  /\ w_returned' = DetailsReturn(last_location)
  /\ UNCHANGED <<last_location, w_args>>
  /\ UNCHANGED <<loopvars, exvars, ansvars>>

NextTools ==
  \/ \E loc \in Locations : GetWeather(loc)
  \/ GetWeatherDetails

SpecTools == InitTools /\ [][NextTools]_vars

\* C16: get_weather_details answers "No location specified yet." exactly
\* when get_weather was never called on the instance, otherwise it reports
\* the location of the latest get_weather call; and it leaves last_location
\* as it was.
DetailsReportLastLocation ==
  [][/\ w_args' = w_args => last_location' = last_location
     /\ (w_args' = w_args /\ w_returned' # w_returned) =>
          /\ w_returned'.msg = "No location specified yet." <=> w_args = <<>>
          /\ w_args # <<>> =>
               /\ w_returned'.msg = "The detailed weather in"
               /\ w_returned'.location = w_args[Len(w_args)]]_vars

\* details asked after two get_weather calls for different locations
DetailsAfterTwoCallsWitness ==
  /\ Len(w_args) = 2
  /\ w_args[1] # w_args[2]
  /\ w_returned.msg = "The detailed weather in"
  /\ w_returned.location = w_args[2]
  /\ last_location = w_args[2]

\* ---------------------------------------------------------- console answers
AnswerChars == {"y", "e", "s", "Y", "E", "S", "n", "o", " "}

AnswerStrings == UNION {[1..n -> AnswerChars] : n \in 0..MaxAnswerLen}

ApprovalPaths == {"handle_approvals", "simple_approval_example"}

InitAnswers ==
  /\ LoopIdle
  /\ ExamplesIdle
  /\ ToolsInit
  /\ a_answer \in AnswerStrings
  /\ a_path \in ApprovalPaths
  /\ a_turn = NoTurn

\* handle_approvals: the answer read at line 138 becomes the decision turn of
\* lines 141-143
ReadAnswerInLoop(r) ==
  /\ a_path = "handle_approvals"
  /\ a_turn = NoTurn
  /\ a_turn' = ApprovalTurn(r, UserApproval(a_answer))
  /\ UNCHANGED <<a_answer, a_path, loopvars, exvars, toolvars>>

\* simple_approval_example: the answer read at line 90 becomes the decision
\* turn of lines 93-96
ReadAnswerInSimple(r) ==
  /\ a_path = "simple_approval_example"
  /\ a_turn = NoTurn
  /\ a_turn' = ApprovalTurn(r, UserApproval(a_answer))
  /\ UNCHANGED <<a_answer, a_path, loopvars, exvars, toolvars>>

NextAnswers ==
  \/ \E r \in Requests : ReadAnswerInLoop(r)
  \/ \E r \in Requests : ReadAnswerInSimple(r)

SpecAnswers == InitAnswers /\ [][NextAnswers]_vars

\* the answers that read "yes" in some mix of upper and lower case
SpellsYes(a) ==
  /\ Len(a) = 3
  /\ a[1] \in {"y", "Y"}
  /\ a[2] \in {"e", "E"}
  /\ a[3] \in {"s", "S"}

\* C18: on both paths the decision is approve exactly when the answer,
\* lower-cased, is "yes"; every other answer (empty, "y", "no", "yes" with
\* blanks around it) is a denial, and every answer gives a decision.
ApproveOnlyOnYes ==
  /\ a_turn # NoTurn =>
       /\ a_turn.kind = "approval_response"
       /\ a_turn.req \in Requests
       /\ a_turn.approved <=> SpellsYes(a_answer)
  /\ (a_path \in ApprovalPaths /\ a_turn = NoTurn) => ENABLED NextAnswers

\* "YeS" approves in simple_approval_example
MixedCaseYesWitness ==
  /\ a_path = "simple_approval_example"
  /\ a_answer = <<"Y", "e", "S">>
  /\ a_turn.kind = "approval_response"
  /\ a_turn.approved

\* ------------------------------------------------------- tutorial examples
\* the example functions that read the two environment variables
ApprovalExamples == {"simple_approval_example", "multiple_approvals_example"}
BasicExamples == {"tutorial_basic.main"}
FunctionToolExamples ==
  {"simple_function_tool", "function_tool_with_decorator",
   "class_with_multiple_tools"}
MultiturnExamples == {"basic_multiturn_conversation", "multiple_conversations"}
StreamingExamples == {"tutorial_streaming.main"}
SystemMessageExamples == {"tutorial_system_message.main"}
ImageExamples == {"tutorial_with_image.main"}
McpStdioExamples == {"tutorial_mcp_server.run"}
McpHttpExamples == {"tutorial_mcp_server_http.main"}

\* the examples that send their requests one after the other and print
RequestExamples ==
  BasicExamples \cup FunctionToolExamples \cup MultiturnExamples
    \cup StreamingExamples \cup SystemMessageExamples \cup ImageExamples

Examples ==
  ApprovalExamples \cup RequestExamples \cup McpStdioExamples
    \cup McpHttpExamples

\* the number of agent.run / run_stream calls of a request example
RequestsOf(e) ==
  CASE e = "class_with_multiple_tools" -> 2
    [] e = "basic_multiturn_conversation" -> 2
    [] e = "multiple_conversations" -> 4
    [] OTHER -> 1

\* os.getenv gives None for a variable that is not set
Unset == "None"
EndpointValues == {Unset, "", "https://your-resource.openai.azure.com"}
DeploymentValues == {Unset, "", "gpt-4o-mini"}

EnvMissingOnlyUnset(e, d) == e = Unset \/ d = Unset

\* `if not endpoint or not deployment_name:`
EnvMissing(e, d) == (e = Unset \/ e = "") \/ (d = Unset \/ d = "")

InitExamples ==
  /\ LoopIdle
  /\ ToolsInit
  /\ AnswersIdle
  /\ example \in Examples
  /\ endpoint \in EndpointValues
  /\ deployment_name \in DeploymentValues
  /\ ex_pc = "entry"
  /\ agent_created = FALSE
  /\ requests_sent = 0
  /\ prompts_made = 0
  /\ server_started = FALSE
  /\ raised = "none"
  /\ error_printed = FALSE
  /\ mcp_server = "None"
  /\ sse_transport = "None"
  /\ s_result = NoResponse
  /\ s_idx = 0
  /\ s_input = <<>>
  /\ s_decided = 0
  /\ s_shown = NothingShown

\* the guard's error branch of the examples that print and return
PrintErrorAndReturn ==
  /\ error_printed' = TRUE
  /\ ex_pc' = "error"
  /\ UNCHANGED <<agent_created, requests_sent, prompts_made, server_started,
                 raised, mcp_server, sse_transport, s_result, s_idx, s_input,
                 s_decided, s_shown>>

\* a request example is entered: guard, create_agent, first request
EnterRequestExample(e) ==
  /\ example = e
  /\ ex_pc = "entry"
  /\ IF EnvMissing(endpoint, deployment_name)
       THEN PrintErrorAndReturn
       ELSE /\ agent_created' = TRUE
            /\ requests_sent' = 1
            /\ ex_pc' = "awaiting"
            /\ UNCHANGED <<prompts_made, server_started, raised,
                           error_printed, mcp_server, sse_transport, s_result,
                           s_idx, s_input, s_decided, s_shown>>
  /\ UNCHANGED <<example, endpoint, deployment_name, loopvars, toolvars,
                 ansvars>>

\* a request of a request example is answered: print, then the next request
\* or the end of the example
RequestAnswered(e) ==
  /\ example = e
  /\ ex_pc = "awaiting"
  /\ IF requests_sent < RequestsOf(e)
       THEN requests_sent' = requests_sent + 1 /\ UNCHANGED ex_pc
       ELSE ex_pc' = "done" /\ UNCHANGED requests_sent
  /\ UNCHANGED <<example, endpoint, deployment_name, agent_created,
                 prompts_made, server_started, raised, error_printed,
                 mcp_server, sse_transport, s_result, s_idx, s_input,
                 s_decided, s_shown, loopvars, toolvars, ansvars>>

\* multiple_approvals_example is entered: guard, create_agent, then
\* handle_approvals and its first agent.run call
EnterMultipleApprovals ==
  /\ example = "multiple_approvals_example"
  /\ ex_pc = "entry"
  /\ IF EnvMissing(endpoint, deployment_name)
       THEN PrintErrorAndReturn
       ELSE /\ agent_created' = TRUE
            /\ requests_sent' = 1
            /\ ex_pc' = "handle_approvals"
            /\ UNCHANGED <<prompts_made, server_started, raised,
                           error_printed, mcp_server, sse_transport, s_result,
                           s_idx, s_input, s_decided, s_shown>>
  /\ UNCHANGED <<example, endpoint, deployment_name, loopvars, toolvars,
                 ansvars>>

\* tutorial_mcp_server.run is entered: guard, create_agent, as_mcp_server,
\* server.run over stdio
EnterMcpStdio ==
  /\ example = "tutorial_mcp_server.run"
  /\ ex_pc = "entry"
  /\ IF EnvMissing(endpoint, deployment_name)
       THEN PrintErrorAndReturn
       ELSE /\ agent_created' = TRUE
            /\ server_started' = TRUE
            /\ ex_pc' = "serving"
            /\ UNCHANGED <<requests_sent, prompts_made, raised, error_printed,
                           mcp_server, sse_transport, s_result, s_idx,
                           s_input, s_decided, s_shown>>
  /\ UNCHANGED <<example, endpoint, deployment_name, loopvars, toolvars,
                 ansvars>>

\* tutorial_mcp_server_http.main is entered: create_app (guard raising
\* ValueError, create_agent, the two globals), then uvicorn.run
EnterMcpHttp ==
  /\ example = "tutorial_mcp_server_http.main"
  /\ ex_pc = "entry"
  /\ IF EnvMissing(endpoint, deployment_name)
       THEN /\ raised' = "ValueError"
            /\ ex_pc' = "error"
            /\ UNCHANGED <<agent_created, server_started, mcp_server,
                           sse_transport>>
       ELSE /\ agent_created' = TRUE
            /\ mcp_server' = "agent.as_mcp_server()"
            /\ sse_transport' = "SseServerTransport"
            /\ server_started' = TRUE
            /\ ex_pc' = "serving"
            /\ UNCHANGED raised
  /\ UNCHANGED <<example, endpoint, deployment_name, requests_sent,
                 prompts_made, error_printed, s_result, s_idx, s_input,
                 s_decided, s_shown, loopvars, toolvars, ansvars>>

\* the query simple_approval_example sends, and sends again as a literal
SimpleQuery == "What is the detailed weather like in Amsterdam?"

\* the print after "Agent:" of a response's text
Shown(res) == [text |-> res.text, pending |-> res.requests # <<>>]

\* simple_approval_example is entered: guard, create_agent, first agent.run
EnterSimpleApproval ==
  /\ example = "simple_approval_example"
  /\ ex_pc = "entry"
  /\ IF EnvMissing(endpoint, deployment_name)
       THEN PrintErrorAndReturn
       ELSE /\ agent_created' = TRUE
            /\ requests_sent' = 1
            /\ s_input' = <<TextTurn(SimpleQuery)>>
            /\ ex_pc' = "awaiting_first"
            /\ UNCHANGED <<prompts_made, server_started, raised,
                           error_printed, mcp_server, sse_transport, s_result,
                           s_idx, s_decided, s_shown>>
  /\ UNCHANGED <<example, endpoint, deployment_name, loopvars, toolvars,
                 ansvars>>

\* the first response arrives: without requests its text is printed, with
\* requests the first of them is shown and its prompt is made
SimpleFirstResponse(resp) ==
  /\ example = "simple_approval_example"
  /\ ex_pc = "awaiting_first"
  /\ s_result' = resp
  /\ IF resp.requests = <<>>
       THEN /\ s_shown' = Shown(resp)
            /\ ex_pc' = "done"
            /\ UNCHANGED <<s_idx, prompts_made>>
       ELSE /\ s_idx' = 1
            /\ prompts_made' = prompts_made + 1
            /\ ex_pc' = "prompting"
            /\ UNCHANGED s_shown
  /\ UNCHANGED <<example, endpoint, deployment_name, agent_created,
                 requests_sent, server_started, raised, error_printed,
                 mcp_server, sse_transport, s_input, s_decided, loopvars,
                 toolvars, ansvars>>

\* the answer to the prompt is read and, still inside the for loop, the
\* conversation of the query, this request and this decision is submitted
SimpleDecide(ans) ==
  /\ example = "simple_approval_example"
  /\ ex_pc = "prompting"
  /\ s_decided' = s_decided + 1
  /\ s_input' = <<TextTurn(SimpleQuery),
                  AssistantTurn(s_result.requests[s_idx]),
                  ApprovalTurn(s_result.requests[s_idx], UserApproval(ans))>>
  /\ requests_sent' = requests_sent + 1
  /\ ex_pc' = "awaiting_final"
  /\ UNCHANGED <<example, endpoint, deployment_name, agent_created,
                 prompts_made, server_started, raised, error_printed,
                 mcp_server, sse_transport, s_result, s_idx, s_shown,
                 loopvars, toolvars, ansvars>>

\* the response to a resubmission arrives and its text is printed; the for
\* loop goes on to the next request of the first response, if there is one
SimpleFinalResponse(resp) ==
  /\ example = "simple_approval_example"
  /\ ex_pc = "awaiting_final"
  /\ s_shown' = Shown(resp)
  /\ IF s_idx < Len(s_result.requests)
       THEN /\ s_idx' = s_idx + 1
            /\ prompts_made' = prompts_made + 1
            /\ ex_pc' = "prompting"
       ELSE /\ ex_pc' = "done"
            /\ UNCHANGED <<s_idx, prompts_made>>
  /\ UNCHANGED <<example, endpoint, deployment_name, agent_created,
                 requests_sent, server_started, raised, error_printed,
                 mcp_server, sse_transport, s_result, s_input, s_decided,
                 loopvars, toolvars, ansvars>>

NextExamples ==
  \/ \E e \in RequestExamples : EnterRequestExample(e)
  \/ \E e \in RequestExamples : RequestAnswered(e)
  \/ EnterMultipleApprovals
  \/ EnterMcpStdio
  \/ EnterMcpHttp
  \/ EnterSimpleApproval
  \/ \E resp \in Responses : SimpleFirstResponse(resp)
  \/ \E ans \in Answers : SimpleDecide(ans)
  \/ \E resp \in Responses : SimpleFinalResponse(resp)

SpecExamples == InitExamples /\ [][NextExamples]_vars

\* the environment leaves one of the two variables unset or empty
MissingEnvironment ==
  endpoint \in {Unset, ""} \/ deployment_name \in {Unset, ""}

\* C17: an example entered with the endpoint or the deployment name unset or
\* empty reports the configuration error and ends (the HTTP server's
\* create_app raises ValueError, every other example prints and returns):
\* no agent is created, no request is sent, no prompt is made, no server is
\* started, and create_app's two globals keep their value None.
MissingEnvironmentEndsExample ==
  MissingEnvironment =>
    /\ ex_pc \in {"entry", "error"}
    /\ ex_pc = "error" =>
         IF example \in McpHttpExamples
           THEN raised = "ValueError" /\ ~error_printed
           ELSE error_printed /\ raised = "none"
    /\ ~agent_created
    /\ requests_sent = 0
    /\ prompts_made = 0
    /\ ~server_started
    /\ mcp_server = "None"
    /\ sse_transport = "None"
    /\ s_input = <<>>

\* create_app has raised ValueError for an empty deployment name
CreateAppRaisedWitness ==
  /\ example \in McpHttpExamples
  /\ endpoint = "https://your-resource.openai.azure.com"
  /\ deployment_name = ""
  /\ ex_pc = "error"
  /\ raised = "ValueError"

\* the number of decisions a submitted conversation carries
DecisionsIn(conv) ==
  Cardinality({j \in 1..Len(conv) : conv[j].kind = "approval_response"})

\* C13: when the first response of simple_approval_example carries k
\* requests, every resubmission is made after all k decisions were collected
\* and carries all k of them.
SimpleCollectsAllDecisionsFirst ==
  (example = "simple_approval_example" /\ requests_sent >= 2) =>
    /\ s_decided = Len(s_result.requests)
    /\ DecisionsIn(s_input) = Len(s_result.requests)

\* C14: on both paths a response's text is presented as the agent's answer
\* only when that response carries no pending approval request.
AnswerOnlyWithoutPendingRequests ==
  /\ ~s_shown.pending
  /\ \A i \in Inv : ret[i] # NoResult => result[i].requests = <<>>
====
